---- MODULE Spec2Model ----
(***************************************************************************)
(* NOX Mini: the task store, the tool dispatcher and the two-phase         *)
(* tool-calling turn of NOXPopup, as found in src/pop_v3.py and in         *)
(* src/old/pop_v3 copy.py.  The two files differ in complete_task_in_json, *)
(* in the complete_task branch of execute_function_call, in                *)
(* get_tasks_summary and in the removal of the loading line; the variable  *)
(* `variant` says which file is running.                                   *)
(*                                                                         *)
(* Python strings are sequences of one-character strings, so that strip,   *)
(* lower, `in` and int() are computed and not assumed.  Money is counted   *)
(* in units of 1e-8 dollar, in which both per-token prices are integers.   *)
(***************************************************************************)
EXTENDS Integers, Sequences, FiniteSets, TLC

VARIABLES
    variant,        \* which source file is running: "pop_v3" or "old_copy"
    scenario,       \* what is explored: "one_turn" (any store, any answer) or "overlap"
    io_faults,      \* fault model: may a write of tasks.json fail?
    api_key,        \* self.api_key (TRUE: a non-empty key was loaded)
    tasks_file,     \* the document in tasks.json: a sequence of task records, or Truncated
    uuid_next,      \* number of uuid4() values drawn so far, plus one
    clock,          \* the next value datetime.now() returns
    total_cost,     \* self.total_cost, in units of 1e-8 dollar
    send_button,    \* state of self.send_button: "normal" or "disabled"
    cost_label,     \* amount shown by self.cost_label, in units of 1e-6 dollar
    chat_history,   \* lines of self.chat_history, each a sequence of words
    after_queue,    \* callbacks handed to root.after(0, ...), oldest first
    started,        \* number of get_gpt_response threads started so far
    turn            \* per started thread: its position and its local variables

vars == <<variant, scenario, io_faults, api_key, tasks_file, uuid_next, clock, total_cost,
          send_button, cost_label, chat_history, after_queue, started, turn>>

(***************************************************************************)
(* Bounds of the model.                                                    *)
(***************************************************************************)
MaxTurns == 2
MaxInitTasks == 3

(***************************************************************************)
(* Python values.                                                          *)
(***************************************************************************)
None == <<"None">>

\* str.lower(), on the letters the model's inputs use
UpperChars == <<"A", "B", "H", "I", "G">>
LowerChars == <<"a", "b", "h", "i", "g">>

LowerChar(c) ==
    IF \E i \in 1..Len(UpperChars) : UpperChars[i] = c
    THEN LowerChars[CHOOSE i \in 1..Len(UpperChars) : UpperChars[i] = c]
    ELSE c

lower(s) == [i \in 1..Len(s) |-> LowerChar(s[i])]

IsSpace(c) == c = " "

RECURSIVE lstrip(_)
lstrip(s) ==
    IF s # <<>> /\ IsSpace(Head(s)) THEN lstrip(Tail(s)) ELSE s

RECURSIVE rstrip(_)
rstrip(s) ==
    IF s # <<>> /\ IsSpace(s[Len(s)]) THEN rstrip(SubSeq(s, 1, Len(s) - 1)) ELSE s

strip(s) == rstrip(lstrip(s))

\* Python's `sub in s` on strings
Contains(sub, s) ==
    \E i \in 0..(Len(s) - Len(sub)) : SubSeq(s, i + 1, i + Len(sub)) = sub

Digits == <<"0", "1", "2", "3", "4", "5", "6", "7", "8", "9">>

IsDigit(c) == \E i \in 1..Len(Digits) : Digits[i] = c

DigitVal(c) == (CHOOSE i \in 1..Len(Digits) : Digits[i] = c) - 1

RECURSIVE DigitsVal(_)
DigitsVal(s) ==
    IF s = <<>> THEN 0 ELSE 10 * DigitsVal(SubSeq(s, 1, Len(s) - 1)) + DigitVal(s[Len(s)])

\* int(s): surrounding whitespace is dropped, one sign is allowed, then digits.
\* ok = FALSE stands for ValueError.
int(s) ==
    LET t == strip(s)
        signed == t # <<>> /\ t[1] \in {"+", "-"}
        d == IF signed THEN Tail(t) ELSE t
    IN  IF d # <<>> /\ \A i \in 1..Len(d) : IsDigit(d[i])
        THEN [ok |-> TRUE,
              val |-> IF signed /\ t[1] = "-" THEN 0 - DigitsVal(d) ELSE DigitsVal(d)]
        ELSE [ok |-> FALSE, val |-> 0]

\* str(uuid.uuid4()): lower-case, never an integer literal; the n-th value drawn
uuid4(n) == <<"u", Digits[n + 1]>>

\* datetime.isoformat() of the clock value n
isoformat(n) == <<"T", n>>

\* dict.get(key, default)
get(d, key, default) == IF key \in DOMAIN d THEN d[key] ELSE default

(***************************************************************************)
(* The task store: tasks.json.                                             *)
(***************************************************************************)
medium == <<"m", "e", "d", "i", "u", "m">>
high == <<"h", "i", "g", "h">>

\* A document json.load accepts, holding the sequence `tasks`
Document(tasks) == [json_ok |-> TRUE, tasks |-> tasks]

\* What open(..., 'w') leaves when json.dump does not finish: an empty file
Truncated == [json_ok |-> FALSE, tasks |-> <<>>]

\* load_tasks: the parsed list, or [] on JSONDecodeError
load_tasks(file) == IF file.json_ok THEN file.tasks ELSE <<>>

\* The outcomes of one save_tasks call: written, open() failed (file untouched),
\* or the write failed after open() had emptied the file.
SaveOutcomes == IF io_faults THEN {"ok", "untouched", "truncated"} ELSE {"ok"}

\* a save_tasks that reports a failure although the document was written
save_tasks_written_anyway(file, tasks, outcome) ==
    CASE outcome = "ok" -> Document(tasks)
      [] outcome = "untouched" -> file
      [] outcome = "truncated" -> Document(tasks)

\* save_tasks: the file after the call
save_tasks(file, tasks, outcome) ==
    CASE outcome = "ok" -> Document(tasks)
      [] outcome = "untouched" -> file
      [] outcome = "truncated" -> Truncated

\* the dict built at the top of add_task_to_json
new_task(id, title, description, timeline, priority, notes, now) ==
    [id |-> id,
     title |-> strip(title),
     description |-> strip(description),
     timeline |-> strip(timeline),
     priority |-> lower(priority),
     notes |-> strip(notes),
     completed |-> FALSE,
     created_at |-> isoformat(now),
     completed_at |-> None]

\* an add_task_to_json that puts the new task in front
add_task_to_json_in_front(tasks, task) == <<task>> \o tasks

\* add_task_to_json: the list handed to save_tasks
add_task_to_json(tasks, task) == Append(tasks, task)

\* task["completed"] = True; task["completed_at"] = now, on the i-th task
mark_completed(tasks, i, now) ==
    [tasks EXCEPT ![i] = [@ EXCEPT !.completed = TRUE, !.completed_at = isoformat(now)]]

First(S) == CHOOSE i \in S : \A j \in S : i <= j

\* src/pop_v3.py: the first task whose id equals task_id, completed or not
find_task_v3(tasks, task_id) ==
    LET hits == {i \in 1..Len(tasks) : tasks[i]["id"] = task_id}
    IN  IF hits # {} THEN First(hits) ELSE 0

\* [t for t in tasks if t["completed"] == done], as positions in tasks
RECURSIVE positions(_, _, _)
positions(tasks, i, done) ==
    IF i > Len(tasks) THEN <<>>
    ELSE IF tasks[i].completed = done THEN <<i>> \o positions(tasks, i + 1, done)
         ELSE positions(tasks, i + 1, done)

\* src/old/pop_v3 copy.py: by id, then by title, then by 1-based index; 0 when none
find_task_old(tasks, task_identifier) ==
    LET by_id == {i \in 1..Len(tasks) :
                     tasks[i]["id"] = task_identifier /\ ~tasks[i].completed}
        by_title == {i \in 1..Len(tasks) :
                        ~tasks[i].completed
                        /\ Contains(lower(task_identifier), lower(tasks[i].title))}
        n == int(task_identifier)
        active_tasks == positions(tasks, 1, FALSE)
    IN  IF by_id # {} THEN First(by_id)
        ELSE IF by_title # {} THEN First(by_title)
        ELSE IF n.ok /\ 0 <= n.val - 1 /\ n.val - 1 < Len(active_tasks)
             THEN active_tasks[n.val]
             ELSE 0

\* a resolution that tries the title rule before the id rule
find_task_title_first(tasks, task_identifier) ==
    LET by_title == {i \in 1..Len(tasks) :
                        ~tasks[i].completed
                        /\ Contains(lower(task_identifier), lower(tasks[i].title))}
    IN  IF by_title # {} THEN First(by_title)
        ELSE find_task_v3(tasks, task_identifier)

\* the position complete_task_in_json marks, 0 when it returns False without writing
find_task(tasks, task_identifier) ==
    IF variant = "pop_v3" THEN find_task_v3(tasks, task_identifier)
    ELSE find_task_old(tasks, task_identifier)

\* get_tasks_summary, line by line; only the old copy prints the ids
priority_indicator(task) ==
    IF task.priority = high THEN "red"
    ELSE IF task.priority = medium THEN "yellow" ELSE "green"

get_tasks_summary(tasks) ==
    LET active_tasks == positions(tasks, 1, FALSE)
        completed_tasks == positions(tasks, 1, TRUE)
        k == Len(completed_tasks)
        last3 == SubSeq(completed_tasks, IF k > 3 THEN k - 2 ELSE 1, k)
        shown_id(task) == IF variant = "old_copy" THEN task["id"] ELSE None
        active_lines ==
            [i \in 1..Len(active_tasks) |->
                [kind |-> "active", number |-> i,
                 indicator |-> priority_indicator(tasks[active_tasks[i]]),
                 title |-> tasks[active_tasks[i]].title,
                 due |-> IF tasks[active_tasks[i]].timeline # <<>>
                         THEN tasks[active_tasks[i]].timeline ELSE None,
                 id |-> shown_id(tasks[active_tasks[i]])]]
        completed_lines ==
            [i \in 1..Len(last3) |->
                [kind |-> "completed", number |-> i,
                 title |-> tasks[last3[i]].title,
                 id |-> shown_id(tasks[last3[i]])]]
    IN  IF tasks = <<>> THEN <<[kind |-> "no_tasks"]>>
        ELSE <<[kind |-> "active_header", count |-> Len(active_tasks)]>>
             \o active_lines
             \o (IF completed_tasks # <<>>
                 THEN <<[kind |-> "completed_header", count |-> k]>> \o completed_lines
                 ELSE <<>>)

(***************************************************************************)
(* The tool catalog and the dispatcher.                                    *)
(***************************************************************************)
\* get_function_definitions: the names offered, and complete_task's parameter
function_names == {"add_task", "get_tasks", "complete_task"}

complete_task_parameter == IF variant = "pop_v3" THEN "task_id" ELSE "task_identifier"

\* the identifier execute_function_call hands to complete_task_in_json
task_identifier_of(arguments) ==
    IF variant = "pop_v3" THEN get(arguments, "task_id", None)
    ELSE get(arguments, "task_identifier", get(arguments, "task_id", <<>>))

\* an add_task branch that gives every task the same id
task_of_fixed_id(arguments, id, now) ==
    new_task(<<"u", "1">>,
             get(arguments, "title", <<>>),
             get(arguments, "description", <<>>),
             get(arguments, "timeline", <<>>),
             get(arguments, "priority", medium),
             get(arguments, "notes", <<>>),
             now)

\* the task built by the add_task branch of execute_function_call
task_of(arguments, id, now) ==
    new_task(id,
             get(arguments, "title", <<>>),
             get(arguments, "description", <<>>),
             get(arguments, "timeline", <<>>),
             get(arguments, "priority", medium),
             get(arguments, "notes", <<>>),
             now)

\* the results execute_function_call returns
added_result(task) ==
    [success |-> TRUE, task |-> task, message |-> <<"added", task.title>>]

exception_result(function_name, text) ==
    [success |-> FALSE, message |-> <<"Error executing", function_name, text>>]

\* a get_tasks branch that returns the incomplete tasks only
get_tasks_result_active(tasks, summary) ==
    [success |-> TRUE, tasks |-> SelectSeq(tasks, LAMBDA task : ~task.completed),
     summary |-> summary]

get_tasks_result(tasks, summary) ==
    [success |-> TRUE, tasks |-> tasks, summary |-> summary]

not_found_result(task_identifier) ==
    [success |-> FALSE, message |-> <<"not found", task_identifier>>]

\* a dispatcher that reports success for a name it does not know
unknown_function_accepted(function_name) ==
    [success |-> TRUE, message |-> <<"Unknown function", function_name>>]

unknown_function_result(function_name) ==
    [success |-> FALSE, message |-> <<"Unknown function", function_name>>]

\* src/pop_v3.py names the identifier in its message
completed_result_v3(task_id) ==
    [success |-> TRUE, message |-> <<"completed", task_id>>]

\* src/old/pop_v3 copy.py names the title of the first task that has the
\* identifier as id, or in its title, or that is completed with a timestamp
feedback_task(tasks, task_identifier) ==
    LET hits == {i \in 1..Len(tasks) :
                    \/ tasks[i]["id"] = task_identifier
                    \/ Contains(lower(task_identifier), lower(tasks[i].title))
                    \/ (tasks[i].completed /\ tasks[i].completed_at \notin {None, <<>>})}
    IN  IF hits # {} THEN First(hits) ELSE 0

completed_result_old(tasks, task_identifier) ==
    LET i == feedback_task(tasks, task_identifier)
    IN  IF i # 0 THEN [success |-> TRUE, message |-> <<"completed", tasks[i].title>>]
        ELSE [success |-> TRUE, message |-> <<"completed">>]

(***************************************************************************)
(* Inputs: what the user types and what the completion service answers.    *)
(***************************************************************************)
Messages == {<<"hi">>}

\* response.usage of one completion call
usage(prompt_tokens, completion_tokens) ==
    [prompt_tokens |-> prompt_tokens, completion_tokens |-> completion_tokens]

\* response.usage and response_message.content of a first response
AllAnswers == {[usage |-> usage(1, 2), content |-> <<"ok">>],
               [usage |-> usage(3, 1), content |-> <<"Thinking", "aloud">>]}

OverlapAnswers == {[usage |-> usage(1, 2), content |-> <<"Thinking", "aloud">>]}

AddArguments ==
    {[title |-> <<" ", "A", "b", " ">>],
     [title |-> <<"u", "2", "b">>, priority |-> <<"H", "I", "G", "H">>,
      timeline |-> <<" ", "2">>],
     [title |-> <<" ">>],
     [notes |-> <<"b">>]}

Identifiers ==
    {<<"u", "1">>, <<"u", "2">>, <<"1">>, <<"2">>, <<" ", "1">>, <<"B">>, <<>>}

CompleteArguments ==
    {[task_identifier |-> s] : s \in Identifiers}
    \cup {[task_id |-> s] : s \in {<<"u", "1">>, <<"2">>}}
    \cup {<<>>}

\* tool_call.function: a name and an argument payload; json_ok = FALSE is a
\* payload json.loads rejects
a_tool_call(name, arguments) == [name |-> name, json_ok |-> TRUE, arguments |-> arguments]

malformed_tool_call == [name |-> "add_task", json_ok |-> FALSE, arguments |-> <<>>]

AllToolCalls ==
    {a_tool_call("add_task", a) : a \in AddArguments}
    \cup {a_tool_call("complete_task", a) : a \in CompleteArguments}
    \cup {a_tool_call("get_tasks", <<>>), a_tool_call("delete_task", <<>>), malformed_tool_call}

\* a second tool call in the same response
ExtraToolCall == a_tool_call("complete_task", [task_id |-> <<"u", "1">>])

\* response_message.tool_calls, when one turn is explored in full
AllToolCallLists ==
    {<<>>} \cup {<<c>> : c \in AllToolCalls} \cup {<<a_tool_call("get_tasks", <<>>), ExtraToolCall>>}

\* the answers explored when turns overlap
OverlapToolCallLists ==
    {<<>>,
     <<a_tool_call("add_task", [title |-> <<"b">>])>>,
     <<a_tool_call("complete_task", [task_id |-> <<"u", "1">>, task_identifier |-> <<"u", "1">>])>>}

ToolCallLists == IF scenario = "one_turn" THEN AllToolCallLists ELSE OverlapToolCallLists

Answers == IF scenario = "one_turn" THEN AllAnswers ELSE OverlapAnswers

\* follow_up: its usage, its text, and the tool calls it might carry although
\* the request offers no tools
AllFollowUps ==
    {[usage |-> usage(3, 1), content |-> <<"ok">>, tool_calls |-> <<>>],
     [usage |-> usage(1, 2), content |-> <<"Thinking", "aloud">>,
      tool_calls |-> <<ExtraToolCall>>]}

OverlapFollowUps == {[usage |-> usage(1, 2), content |-> <<"ok">>, tool_calls |-> <<>>]}

FollowUps == IF scenario = "one_turn" THEN AllFollowUps ELSE OverlapFollowUps

\* does client.chat.completions.create() raise in the runs explored?
create_may_raise == scenario = "one_turn"

\* json.loads(tool_call.function.arguments)
json_loads(tool_call) ==
    [ok |-> tool_call.json_ok, value |-> tool_call.arguments]

(***************************************************************************)
(* Cost accounting.                                                        *)
(***************************************************************************)
RateIn == 15
RateOut == 60

\* a total that counts the follow-up call only
sum_tokens_last(first, second) == second

\* response.usage.x + follow_up.usage.x
sum_tokens(first, second) == first + second

\* a cost computed with the two prices exchanged
cost_of_swapped(total_input_tokens, total_output_tokens) ==
    total_input_tokens * RateOut + total_output_tokens * RateIn

\* input_cost + output_cost
cost_of(total_input_tokens, total_output_tokens) ==
    total_input_tokens * RateIn + total_output_tokens * RateOut

\* f"{self.total_cost:.6f}": rounded to units of 1e-6 dollar
format_cost(c) == (c + 50) \div 100

(***************************************************************************)
(* The state after NOXPopup.__init__.                                      *)
(***************************************************************************)
Turns == 1..MaxTurns

\* the number of turns explored
turn_budget == IF scenario = "one_turn" THEN 1 ELSE MaxTurns

\* titles of the tasks an earlier run left in tasks.json
StoredTitles == {<<"A", "b">>, <<"u", "2", "b">>}

\* a task an earlier run stored as the n-th, completed or not
stored_task(n, title, completed) ==
    [id |-> uuid4(n), title |-> title, description |-> <<>>, timeline |-> <<>>,
     priority |-> medium, notes |-> <<>>, completed |-> completed,
     created_at |-> isoformat(0),
     completed_at |-> IF completed THEN isoformat(0) ELSE None]

StoredChoices == StoredTitles \X BOOLEAN

InitialStores ==
    UNION {{[n \in 1..k |-> stored_task(n, c[n][1], c[n][2])] :
               c \in [1..k -> StoredChoices]} : k \in 0..MaxInitTasks}

\* the stores explored when turns overlap
OverlapStores == {<<>>, <<stored_task(1, <<"A", "b">>, FALSE)>>}

\* a local of get_gpt_response that holds a dict once it is assigned
Unbound == [unbound |-> TRUE]

\* the locals of a get_gpt_response thread that has not started
NoTurn ==
    [pc |-> "unstarted", message |-> <<>>, tool_calls |-> <<>>,
     function_name |-> "", function_args |-> <<>>, content |-> None,
     final_reply |-> None, total_input_tokens |-> 0, total_output_tokens |-> 0,
     task |-> Unbound, tasks |-> <<>>, saved |-> <<>>, result |-> Unbound,
     function_results |-> <<>>, total_cost |-> 0, read_cost |-> 0,
     written_cost |-> 0, usages |-> <<>>, trace |-> <<>>, outcome |-> "none",
     follow_up_tool_calls |-> <<>>, handled |-> "none", store_at_start |-> Unbound,
     current_tasks |-> <<>>]

\* load_api_key: the lines it leaves in the chat, with and without a key file
load_api_key ==
    IF ~api_key THEN <<<<"Please create api_key.txt">>>>
    ELSE IF variant = "pop_v3" THEN <<<<"NOX:", "API key loaded successfully!">>>>
    ELSE <<<<"API key loaded successfully">>, <<"Hello!">>>>

InitWith(faults) ==
    /\ variant \in {"pop_v3", "old_copy"}
    /\ scenario \in {"one_turn", "overlap"}
    /\ io_faults \in faults
    /\ api_key \in BOOLEAN
    /\ \E tasks \in InitialStores :
          /\ scenario = "overlap" => tasks \in OverlapStores
          /\ tasks_file = Document(tasks)
          /\ uuid_next = Len(tasks) + 1
    /\ clock = 1
    /\ total_cost = 0
    /\ send_button = "normal"
    /\ cost_label = 0
    /\ chat_history = load_api_key
    /\ after_queue = <<>>
    /\ started = 0
    /\ turn = [t \in Turns |-> NoTurn]

Init == InitWith({FALSE})

InitIO == InitWith({TRUE})

(***************************************************************************)
(* The interactive thread: send_message, by the button or by the Enter key.*)
(***************************************************************************)
\* add_to_chat
add_to_chat(history, line) == Append(history, line)

thinking_line == <<"NOX:", "Thinking...">>

\* a send_message that does not look at self.api_key
send_message_without_key(message) ==
    /\ message # <<>>
    /\ started < turn_budget
    /\ chat_history' = add_to_chat(add_to_chat(chat_history, <<"You:">> \o message),
                                   thinking_line)
    /\ send_button' = "disabled"
    /\ started' = started + 1
    /\ turn' = [turn EXCEPT ![started + 1] =
                   [@ EXCEPT !.pc = "first_completion", !.message = message,
                             !.store_at_start = tasks_file]]
    /\ UNCHANGED <<variant, scenario, io_faults, api_key, tasks_file, uuid_next, clock,
                   total_cost, cost_label, after_queue>>

send_message(message) ==
    /\ message # <<>>
    /\ IF ~api_key
       THEN /\ Len(chat_history) < Len(load_api_key) + turn_budget
            /\ chat_history' = add_to_chat(chat_history, <<"NOX:", "Please add your API key">>)
            /\ UNCHANGED <<send_button, started, turn>>
       ELSE /\ started < turn_budget
            /\ chat_history' = add_to_chat(add_to_chat(chat_history, <<"You:">> \o message),
                                           thinking_line)
            /\ send_button' = "disabled"
            /\ started' = started + 1
            /\ turn' = [turn EXCEPT ![started + 1] =
                           [@ EXCEPT !.pc = "first_completion", !.message = message,
                                     !.store_at_start = tasks_file]]
    /\ UNCHANGED <<variant, scenario, io_faults, api_key, tasks_file, uuid_next, clock,
                   total_cost, cost_label, after_queue>>

\* the Send button runs its command only while it is not disabled
ClickSend ==
    /\ send_button = "normal"
    /\ \E message \in Messages : send_message(message)

\* handle_enter: <Return> without the modifier key calls send_message
handle_enter ==
    \E message \in Messages : send_message(message)

(***************************************************************************)
(* The background thread: get_gpt_response.                                *)
(***************************************************************************)
\* root.after(0, callback)
after(queue, callback) == Append(queue, callback)

\* root.after(0, self.handle_gpt_error, str(e)) in src/pop_v3.py: the text is
\* taken at once.  The old copy wraps the call in a lambda that reads `e` when
\* it runs; Python unbinds `e` when the except block ends, so whether the name
\* is still bound then depends on which thread runs first.
error_callbacks(t, text, in_lambda) ==
    {[handler |-> "handle_gpt_error", turn |-> t, error |-> text, e_bound |-> b] :
        b \in IF in_lambda THEN BOOLEAN ELSE {TRUE}}

response_callback(t, reply, function_results) ==
    [handler |-> "handle_gpt_response", turn |-> t, reply |-> reply,
     function_results |-> function_results]

\* only the first tool call of the response is looked at
first_tool_call(tool_calls) == tool_calls[1]

\* the create() call raised: the outer except schedules handle_gpt_error
CompletionFails(t, event) ==
    /\ create_may_raise
    /\ \E cb \in error_callbacks(t, "completion failed", variant = "old_copy") :
          after_queue' = after(after_queue, cb)
    /\ turn' = [turn EXCEPT ![t] =
                   [@ EXCEPT !.pc = "finished", !.outcome = "error",
                             !.trace = Append(@, event)]]
    /\ UNCHANGED <<variant, scenario, io_faults, api_key, tasks_file, uuid_next, clock,
                   total_cost, send_button, cost_label, chat_history, started>>

FirstCompletion(t) ==
    /\ turn[t].pc = "first_completion"
    /\ \/ CompletionFails(t, "first_completion")
       \/ /\ UNCHANGED <<variant, scenario, io_faults, api_key, tasks_file, uuid_next, clock,
                         total_cost, send_button, cost_label, chat_history, started>>
          /\ \E answer \in Answers, tool_calls \in ToolCallLists :
             LET content == answer.content
                 base == [turn[t] EXCEPT
                             !.trace = Append(@, "first_completion"),
                             !.usages = Append(@, answer.usage),
                             !.tool_calls = tool_calls,
                             !.content = content,
                             !.total_input_tokens = answer.usage.prompt_tokens,
                             !.total_output_tokens = answer.usage.completion_tokens]
             IN  IF tool_calls = <<>>
                 THEN /\ turn' = [turn EXCEPT ![t] =
                                     [base EXCEPT !.pc = "cost_read",
                                                  !.final_reply = content]]
                      /\ UNCHANGED after_queue
                 ELSE LET parsed == json_loads(first_tool_call(tool_calls))
                      IN  IF ~parsed.ok
                          THEN /\ \E cb \in error_callbacks(t, "Invalid function arguments", TRUE) :
                                     after_queue' = after(after_queue, cb)
                               /\ turn' = [turn EXCEPT ![t] =
                                              [base EXCEPT !.pc = "finished",
                                                           !.outcome = "error"]]
                          ELSE /\ turn' = [turn EXCEPT ![t] =
                                              [base EXCEPT
                                                  !.pc = "execute_load",
                                                  !.function_name = first_tool_call(tool_calls).name,
                                                  !.function_args = parsed.value]]
                               /\ UNCHANGED after_queue

\* execute_function_call, up to and including the first load_tasks
ExecuteLoad(t) ==
    /\ turn[t].pc = "execute_load"
    /\ LET name == turn[t].function_name
           base == [turn[t] EXCEPT !.trace = Append(@, "execute_function_call")]
       IN  CASE name = "add_task" ->
                  /\ turn' = [turn EXCEPT ![t] =
                                 [base EXCEPT
                                     !.pc = "execute_save",
                                     !.task = task_of(turn[t].function_args,
                                                      uuid4(uuid_next), clock),
                                     !.tasks = load_tasks(tasks_file)]]
                  /\ uuid_next' = uuid_next + 1
                  /\ clock' = clock + 1
             [] name \in {"get_tasks", "complete_task"} ->
                  /\ turn' = [turn EXCEPT ![t] =
                                 [base EXCEPT !.pc = "execute_save",
                                              !.tasks = load_tasks(tasks_file)]]
                  /\ UNCHANGED <<uuid_next, clock>>
             [] OTHER ->
                  /\ turn' = [turn EXCEPT ![t] =
                                 [base EXCEPT
                                     !.pc = "second_completion",
                                     !.result = unknown_function_result(name),
                                     !.function_results =
                                         <<unknown_function_result(name)>>]]
                  /\ UNCHANGED <<uuid_next, clock>>
    /\ UNCHANGED <<variant, scenario, io_faults, api_key, tasks_file, total_cost, send_button,
                   cost_label, chat_history, after_queue, started>>

\* the turn's locals once execute_function_call has returned `result`
returned(t, result) ==
    [turn[t] EXCEPT !.pc = "second_completion", !.result = result,
                    !.function_results = <<result>>]

\* execute_function_call, from the first load_tasks to save_tasks or the return
ExecuteSave(t) ==
    /\ turn[t].pc = "execute_save"
    /\ LET name == turn[t].function_name
           tasks == turn[t].tasks
       IN  CASE name = "add_task" ->
                  \E outcome \in SaveOutcomes :
                     LET new == add_task_to_json(tasks, turn[t].task)
                     IN  /\ tasks_file' = save_tasks(tasks_file, new, outcome)
                         /\ turn' = [turn EXCEPT ![t] =
                               [returned(t, IF outcome = "ok"
                                            THEN added_result(turn[t].task)
                                            ELSE exception_result(name, "Failed to save task to file"))
                                   EXCEPT !.saved = Append(@, new)]]
                         /\ UNCHANGED clock
             [] name = "get_tasks" ->
                  /\ turn' = [turn EXCEPT ![t] =
                        returned(t, get_tasks_result(tasks,
                                        get_tasks_summary(load_tasks(tasks_file))))]
                  /\ UNCHANGED <<tasks_file, clock>>
             [] name = "complete_task" ->
                  LET task_identifier == task_identifier_of(turn[t].function_args)
                      i == find_task(tasks, task_identifier)
                  IN  IF i = 0
                      THEN /\ turn' = [turn EXCEPT ![t] =
                                          returned(t, not_found_result(task_identifier))]
                           /\ UNCHANGED <<tasks_file, clock>>
                      ELSE \E outcome \in SaveOutcomes :
                             LET new == mark_completed(tasks, i, clock)
                             IN  /\ tasks_file' = save_tasks(tasks_file, new, outcome)
                                 /\ clock' = clock + 1
                                 /\ turn' = [turn EXCEPT ![t] =
                                       [(IF outcome # "ok"
                                         THEN returned(t, not_found_result(task_identifier))
                                         ELSE IF variant = "pop_v3"
                                         THEN returned(t, completed_result_v3(task_identifier))
                                         ELSE [turn[t] EXCEPT !.pc = "execute_feedback"])
                                           EXCEPT !.saved = Append(@, new)]]
    /\ UNCHANGED <<variant, scenario, io_faults, api_key, uuid_next, total_cost, send_button,
                   cost_label, chat_history, after_queue, started>>

\* old copy only: after a successful complete_task_in_json the file is loaded
\* again to word the message
ExecuteFeedback(t) ==
    /\ turn[t].pc = "execute_feedback"
    /\ turn' = [turn EXCEPT ![t] =
          returned(t, completed_result_old(load_tasks(tasks_file),
                                           task_identifier_of(turn[t].function_args)))]
    /\ UNCHANGED <<variant, scenario, io_faults, api_key, tasks_file, uuid_next, clock, total_cost,
                   send_button, cost_label, chat_history, after_queue, started>>

\* a follow-up whose tool calls are executed like those of the first response
after_follow_up_chained(tool_calls) ==
    IF tool_calls = <<>> THEN "cost_read" ELSE "execute_load"

\* where get_gpt_response goes after the follow-up: follow_up's tool calls are not read
after_follow_up(tool_calls) == "cost_read"

SecondCompletion(t) ==
    /\ turn[t].pc = "second_completion"
    /\ \/ CompletionFails(t, "second_completion")
       \/ \E follow_up \in FollowUps :
             LET tool_calls == follow_up.tool_calls
             IN
             /\ turn' = [turn EXCEPT ![t] =
                   [@ EXCEPT
                       !.pc = after_follow_up(tool_calls),
                       !.tool_calls = IF after_follow_up(tool_calls) = "cost_read"
                                      THEN @ ELSE tool_calls,
                       !.function_name = IF after_follow_up(tool_calls) = "cost_read"
                                         THEN @ ELSE first_tool_call(tool_calls).name,
                       !.function_args = IF after_follow_up(tool_calls) = "cost_read"
                                         THEN @ ELSE first_tool_call(tool_calls).arguments,
                       !.trace = Append(@, "second_completion"),
                       !.follow_up_tool_calls = tool_calls,
                       !.usages = Append(@, follow_up.usage),
                       !.final_reply = follow_up.content,
                       !.total_input_tokens = sum_tokens(@, follow_up.usage.prompt_tokens),
                       !.total_output_tokens =
                           sum_tokens(@, follow_up.usage.completion_tokens)]]
             /\ UNCHANGED <<variant, scenario, io_faults, api_key, tasks_file, uuid_next, clock,
                            total_cost, send_button, cost_label, chat_history,
                            after_queue, started>>

\* self.total_cost += total_cost is a read, an addition and a write
CostRead(t) ==
    /\ turn[t].pc = "cost_read"
    /\ turn' = [turn EXCEPT ![t] =
          [@ EXCEPT !.pc = "cost_write",
                    !.total_cost = cost_of(turn[t].total_input_tokens,
                                           turn[t].total_output_tokens),
                    !.read_cost = total_cost]]
    /\ UNCHANGED <<variant, scenario, io_faults, api_key, tasks_file, uuid_next, clock, total_cost,
                   send_button, cost_label, chat_history, after_queue, started>>

\* a thread that refreshes the cost label itself instead of leaving it to
\* handle_gpt_response
CostWrite_direct(t) ==
    /\ turn[t].pc = "cost_write"
    /\ total_cost' = turn[t].read_cost + turn[t].total_cost
    /\ cost_label' = total_cost'
    /\ after_queue' = after(after_queue,
                            response_callback(t, turn[t].final_reply,
                                              turn[t].function_results))
    /\ turn' = [turn EXCEPT ![t] =
          [@ EXCEPT !.pc = "finished", !.outcome = "response",
                    !.written_cost = turn[t].read_cost + turn[t].total_cost]]
    /\ UNCHANGED <<variant, scenario, io_faults, api_key, tasks_file, uuid_next, clock,
                   send_button, chat_history, started>>

CostWrite(t) ==
    /\ turn[t].pc = "cost_write"
    /\ total_cost' = turn[t].read_cost + turn[t].total_cost
    /\ after_queue' = after(after_queue,
                            response_callback(t, turn[t].final_reply,
                                              turn[t].function_results))
    /\ turn' = [turn EXCEPT ![t] =
          [@ EXCEPT !.pc = "finished", !.outcome = "response",
                    !.written_cost = turn[t].read_cost + turn[t].total_cost]]
    /\ UNCHANGED <<variant, scenario, io_faults, api_key, tasks_file, uuid_next, clock,
                   send_button, cost_label, chat_history, started>>

(***************************************************************************)
(* The interactive thread: the callbacks root.after delivers.              *)
(***************************************************************************)
\* str.startswith("Thinking") on the words replies are made of
starts_with_thinking(word) == word \in {"Thinking", "Thinking..."}

\* the lines the handlers keep when they drop the loading line
keep_line_v3(line) == line # thinking_line

keep_line_old(line) ==
    ~(line = thinking_line
      \/ (Len(line) >= 2 /\ line[1] = "NOX:" /\ starts_with_thinking(line[2])))

remove_loading_message(history) ==
    IF variant = "pop_v3" THEN SelectSeq(history, keep_line_v3)
    ELSE SelectSeq(history, keep_line_old)

\* a handler that marks every function result as a success
debug_line_always_success(result) ==
    <<"[DEBUG]", "executed", Head(get(result, "message", <<"No message">>))>>

\* the line handle_gpt_response adds for one function result
debug_line(result) ==
    IF get(result, "success", FALSE)
    THEN <<"[DEBUG]", "executed", Head(get(result, "message", <<"No message">>))>>
    ELSE <<"[DEBUG]", "failed", Head(get(result, "message", <<"Unknown error">>))>>

RECURSIVE debug_lines(_)
debug_lines(function_results) ==
    IF function_results = <<>> THEN <<>>
    ELSE <<debug_line(Head(function_results))>> \o debug_lines(Tail(function_results))

handle_gpt_response(reply, function_results) ==
    /\ chat_history' = add_to_chat(remove_loading_message(chat_history), <<"NOX:">> \o reply)
                       \o debug_lines(function_results)
    /\ cost_label' = format_cost(total_cost)
    /\ send_button' = "normal"

handle_gpt_error(error) ==
    /\ chat_history' = add_to_chat(remove_loading_message(chat_history),
                                   <<"NOX:", "Error", error>>)
    /\ send_button' = "normal"
    /\ UNCHANGED cost_label

\* what running the callback cb came to: the handler it called, or the
\* NameError of a lambda whose `e` is unbound
ran(cb) ==
    IF cb.handler = "handle_gpt_error" /\ ~cb.e_bound THEN "NameError" ELSE cb.handler

\* the event loop runs the oldest callback; a lambda whose `e` is unbound
\* raises NameError inside the event loop and changes nothing
RunCallback ==
    /\ after_queue # <<>>
    /\ LET cb == Head(after_queue)
       IN  CASE cb.handler = "handle_gpt_response" ->
                  handle_gpt_response(cb.reply, cb.function_results)
             [] cb.handler = "handle_gpt_error" /\ cb.e_bound ->
                  handle_gpt_error(cb.error)
             [] OTHER ->
                  UNCHANGED <<chat_history, cost_label, send_button>>
    /\ after_queue' = Tail(after_queue)
    /\ turn' = [turn EXCEPT ![Head(after_queue).turn].handled = ran(Head(after_queue))]
    /\ UNCHANGED <<variant, scenario, io_faults, api_key, tasks_file, uuid_next, clock, total_cost,
                   started>>

(***************************************************************************)
(* The program.                                                            *)
(***************************************************************************)
Next ==
    \/ ClickSend
    \/ handle_enter
    \/ RunCallback
    \/ \E t \in Turns : FirstCompletion(t)
    \/ \E t \in Turns : ExecuteLoad(t)
    \/ \E t \in Turns : ExecuteSave(t)
    \/ \E t \in Turns : ExecuteFeedback(t)
    \/ \E t \in Turns : SecondCompletion(t)
    \/ \E t \in Turns : CostRead(t)
    \/ \E t \in Turns : CostWrite(t)

\* a working file system
Spec == Init /\ [][Next]_vars

\* writes of tasks.json may fail
SpecIO == InitIO /\ [][Next]_vars

\* writes of tasks.json may fail, one turn at a time
InitIOTurn == InitIO /\ scenario = "one_turn"

SpecIOTurn == InitIOTurn /\ [][Next]_vars

\* a working file system, one turn at a time
InitTurn == Init /\ scenario = "one_turn"

SpecTurn == InitTurn /\ [][Next]_vars

\* where every thread stands and what the event loop still has to run
position == <<[t \in Turns |-> turn[t].pc], after_queue>>

\* a started background thread is scheduled until it returns, and the event
\* loop runs every callback handed to root.after; the user is never obliged
\* to send another message
Scheduling ==
    /\ WF_position(RunCallback)
    /\ \A t \in Turns :
          /\ WF_position(FirstCompletion(t))
          /\ WF_position(ExecuteLoad(t))
          /\ WF_position(ExecuteSave(t))
          /\ WF_position(ExecuteFeedback(t))
          /\ WF_position(SecondCompletion(t))
          /\ WF_position(CostRead(t))
          /\ WF_position(CostWrite(t))

SpecFair == Init /\ [][Next]_vars /\ Scheduling

(***************************************************************************)
(* tasks.json as text: what json.dump(tasks, f, indent=2,                  *)
(* ensure_ascii=False) writes through a file opened with encoding='utf-8', *)
(* and what json.load makes of it.                                         *)
(***************************************************************************)
MaxWritten == 2

Quote == "\""
Backslash == "\\"
Newline == "\n"

\* a code point of U+D800..U+DFFF standing alone, as json.loads makes of "\ud83d"
LoneSurrogate == "U+D83D"

\* the keys of a task dict in the order add_task_to_json builds them
TaskKeys ==
    <<"id", "title", "description", "timeline", "priority", "notes", "completed",
      "created_at", "completed_at">>

\* the same keys letter by letter
spelled ==
    [id |-> <<"i", "d">>,
     title |-> <<"t", "i", "t", "l", "e">>,
     description |-> <<"d", "e", "s", "c", "r", "i", "p", "t", "i", "o", "n">>,
     timeline |-> <<"t", "i", "m", "e", "l", "i", "n", "e">>,
     priority |-> <<"p", "r", "i", "o", "r", "i", "t", "y">>,
     notes |-> <<"n", "o", "t", "e", "s">>,
     completed |-> <<"c", "o", "m", "p", "l", "e", "t", "e", "d">>,
     created_at |-> <<"c", "r", "e", "a", "t", "e", "d", "_", "a", "t">>,
     completed_at |-> <<"c", "o", "m", "p", "l", "e", "t", "e", "d", "_", "a", "t">>]

json_true == <<"t", "r", "u", "e">>
json_false == <<"f", "a", "l", "s", "e">>
json_null == <<"n", "u", "l", "l">>

\* the concatenation of a sequence of sequences
RECURSIVE flatten(_)
flatten(parts) ==
    IF parts = <<>> THEN <<>>
    ELSE IF Len(parts) = 1 THEN parts[1]
    ELSE LET half == Len(parts) \div 2
         IN  flatten(SubSeq(parts, 1, half)) \o flatten(SubSeq(parts, half + 1, Len(parts)))

\* json.encoder: the escapes of a string written with ensure_ascii=False
escape_char(c) ==
    CASE c = Quote -> <<Backslash, Quote>>
      [] c = Backslash -> <<Backslash, Backslash>>
      [] c = Newline -> <<Backslash, "n">>
      [] OTHER -> <<c>>

encode_basestring(s) ==
    <<Quote>> \o flatten([i \in 1..Len(s) |-> escape_char(s[i])]) \o <<Quote>>

\* the chunk of one value of a task dict: a bool, None or a str
encode_value(key, v) ==
    IF key = "completed" THEN (IF v THEN json_true ELSE json_false)
    ELSE IF v = None THEN json_null
    ELSE encode_basestring(v)

\* the chunks json.dump hands to f.write, one after the other
member_chunks(task, k) ==
    <<(IF k = 1 THEN <<>> ELSE <<",">>) \o <<Newline, " ", " ", " ", " ">>,
      encode_basestring(spelled[TaskKeys[k]]),
      <<":", " ">>,
      encode_value(TaskKeys[k], task[TaskKeys[k]])>>

dict_chunks(task) ==
    <<<<"{">>>> \o flatten([k \in 1..Len(TaskKeys) |-> member_chunks(task, k)])
       \o <<<<Newline, " ", " ">>, <<"}">>>>

json_dump(tasks) ==
    IF tasks = <<>> THEN <<<<"[", "]">>>>
    ELSE <<<<"[">>>>
           \o flatten([n \in 1..Len(tasks) |->
                         <<(IF n = 1 THEN <<>> ELSE <<",">>) \o <<Newline, " ", " ">>>>
                            \o dict_chunks(tasks[n])])
           \o <<<<Newline>>, <<"]">>>>

\* the utf-8 codec refuses a lone surrogate: UnicodeEncodeError
encodable(chunk) == \A i \in 1..Len(chunk) : chunk[i] # LoneSurrogate

\* f.write chunk by chunk into the file open(..., 'w') has emptied: the text
\* that reached the file, and whether a write raised
write_chunks(chunks) ==
    LET refused == {i \in 1..Len(chunks) : ~encodable(chunks[i])}
    IN  IF refused = {} THEN [raised |-> FALSE, text |-> flatten(chunks)]
        ELSE [raised |-> TRUE, text |-> flatten(SubSeq(chunks, 1, First(refused) - 1))]

\* json.decoder: whitespace between tokens
IsWhitespace(c) == c \in {" ", Newline, "\t", "\r"}

RECURSIVE skip_whitespace(_, _)
skip_whitespace(text, i) ==
    IF i <= Len(text) /\ IsWhitespace(text[i]) THEN skip_whitespace(text, i + 1) ELSE i

\* JSONDecodeError
Failed == [ok |-> FALSE, value |-> <<>>, next |-> 0]

\* py_scanstring in strict mode, from the character after the opening quote
RECURSIVE scanstring(_, _, _)
scanstring(text, i, acc) ==
    IF i > Len(text) THEN Failed
    ELSE IF text[i] = Quote THEN [ok |-> TRUE, value |-> acc, next |-> i + 1]
    ELSE IF text[i] \in {Newline, "\t", "\r"} THEN Failed
    ELSE IF text[i] # Backslash THEN scanstring(text, i + 1, Append(acc, text[i]))
    ELSE IF i + 1 > Len(text) THEN Failed
    ELSE CASE text[i + 1] = Quote -> scanstring(text, i + 2, Append(acc, Quote))
           [] text[i + 1] = Backslash -> scanstring(text, i + 2, Append(acc, Backslash))
           [] text[i + 1] = "/" -> scanstring(text, i + 2, Append(acc, "/"))
           [] text[i + 1] = "n" -> scanstring(text, i + 2, Append(acc, Newline))
           [] text[i + 1] = "t" -> scanstring(text, i + 2, Append(acc, "\t"))
           [] text[i + 1] = "r" -> scanstring(text, i + 2, Append(acc, "\r"))
           [] OTHER -> Failed

\* does `word` stand at position i of text?
matches(text, i, word) ==
    /\ i + Len(word) - 1 <= Len(text)
    /\ SubSeq(text, i, i + Len(word) - 1) = word

\* the dict of a sequence of key/value pairs: the last pair of a key wins.
\* Keys other than those of a task are not modelled: the parse fails on them.
known_keys(pairs) ==
    \A p \in 1..Len(pairs) : \E k \in DOMAIN spelled : spelled[k] = pairs[p].key

dict_of(pairs) ==
    LET names == {k \in DOMAIN spelled :
                     \E p \in 1..Len(pairs) : pairs[p].key = spelled[k]}
        last(k) == CHOOSE p \in 1..Len(pairs) :
                      /\ pairs[p].key = spelled[k]
                      /\ \A q \in (p + 1)..Len(pairs) : pairs[q].key # spelled[k]
    IN  [k \in names |-> pairs[last(k)].value]

\* JSONDecoder.scan_once and the array and object parsers it calls
RECURSIVE scan_once(_, _)
RECURSIVE parse_array(_, _, _)
RECURSIVE parse_object(_, _, _)
scan_once(text, i) ==
    IF i > Len(text) THEN Failed
    ELSE CASE text[i] = Quote -> scanstring(text, i + 1, <<>>)
           [] text[i] = "{" ->
                LET j == skip_whitespace(text, i + 1)
                IN  IF j <= Len(text) /\ text[j] = "}"
                    THEN [ok |-> TRUE, value |-> dict_of(<<>>), next |-> j + 1]
                    ELSE parse_object(text, j, <<>>)
           [] text[i] = "[" ->
                LET j == skip_whitespace(text, i + 1)
                IN  IF j <= Len(text) /\ text[j] = "]"
                    THEN [ok |-> TRUE, value |-> <<>>, next |-> j + 1]
                    ELSE parse_array(text, j, <<>>)
           [] matches(text, i, json_null) ->
                [ok |-> TRUE, value |-> None, next |-> i + Len(json_null)]
           [] matches(text, i, json_true) ->
                [ok |-> TRUE, value |-> TRUE, next |-> i + Len(json_true)]
           [] matches(text, i, json_false) ->
                [ok |-> TRUE, value |-> FALSE, next |-> i + Len(json_false)]
           [] OTHER -> Failed

parse_array(text, i, values) ==
    LET v == scan_once(text, i)
        j == skip_whitespace(text, v.next)
    IN  IF ~v.ok \/ j > Len(text) THEN Failed
        ELSE IF text[j] = ","
        THEN parse_array(text, skip_whitespace(text, j + 1), Append(values, v.value))
        ELSE IF text[j] = "]"
        THEN [ok |-> TRUE, value |-> Append(values, v.value), next |-> j + 1]
        ELSE Failed

parse_object(text, i, pairs) ==
    IF i > Len(text) \/ text[i] # Quote THEN Failed
    ELSE LET k == scanstring(text, i + 1, <<>>)
             c == skip_whitespace(text, k.next)
         IN  IF ~k.ok \/ c > Len(text) \/ text[c] # ":" THEN Failed
             ELSE LET v == scan_once(text, skip_whitespace(text, c + 1))
                      j == skip_whitespace(text, v.next)
                      all == Append(pairs, [key |-> k.value, value |-> v.value])
                  IN  IF ~v.ok \/ j > Len(text) THEN Failed
                      ELSE IF text[j] = ","
                      THEN parse_object(text, skip_whitespace(text, j + 1), all)
                      ELSE IF text[j] = "}" /\ known_keys(all)
                      THEN [ok |-> TRUE, value |-> dict_of(all), next |-> j + 1]
                      ELSE Failed

\* json.load: the whole text is one value, or JSONDecodeError
json_load(text) ==
    LET v == scan_once(text, skip_whitespace(text, 1))
    IN  IF v.ok /\ skip_whitespace(text, v.next) > Len(text)
        THEN [ok |-> TRUE, value |-> v.value]
        ELSE [ok |-> FALSE, value |-> <<>>]

\* tasks.json with `text` in it, as load_tasks will find it
file_with(text) ==
    LET parsed == json_load(text)
    IN  IF parsed.ok THEN Document(parsed.value) ELSE Truncated

\* the task lists written: text fields with the characters json has to escape
WrittenTitles ==
    {<<"A", "b">>, <<Quote>>, <<Backslash>>, <<Backslash, "n">>, <<Newline>>, <<"é">>,
     json_null, <<"]", ",">>, <<LoneSurrogate>>}

written_task(n, title, completed) ==
    [id |-> uuid4(n), title |-> title, description |-> <<>>, timeline |-> <<"}">>,
     priority |-> medium, notes |-> <<" ">>, completed |-> completed,
     created_at |-> <<"T", "0">>,
     completed_at |-> IF completed THEN <<"T", "1">> ELSE None]

WrittenLists ==
    UNION {{[n \in 1..k |-> written_task(n, c[n][1], c[n][2])] :
               c \in [1..k -> WrittenTitles \X BOOLEAN]} : k \in 0..MaxWritten}

\* one thread that is about to call save_tasks(tasks) and then load_tasks()
InitText ==
    /\ variant \in {"pop_v3", "old_copy"}
    /\ scenario = "round_trip"
    /\ io_faults = FALSE
    /\ api_key = TRUE
    /\ tasks_file = Document(<<>>)
    /\ uuid_next = 1
    /\ clock = 1
    /\ total_cost = 0
    /\ send_button = "normal"
    /\ cost_label = 0
    /\ chat_history = load_api_key
    /\ after_queue = <<>>
    /\ started = 0
    /\ \E tasks \in WrittenLists :
          turn = [t \in Turns |->
                    IF t = 1 THEN [NoTurn EXCEPT !.pc = "save_tasks", !.saved = <<tasks>>]
                    ELSE NoTurn]

\* save_tasks: open(..., 'w'), json.dump, and the except branch
SaveText(t) ==
    /\ turn[t].pc = "save_tasks"
    /\ LET written == write_chunks(json_dump(turn[t].saved[1]))
       IN  /\ tasks_file' = file_with(written.text)
           /\ turn' = [turn EXCEPT ![t] =
                 [@ EXCEPT !.pc = "load_tasks",
                           !.result = [success |-> ~written.raised]]]
    /\ UNCHANGED <<variant, scenario, io_faults, api_key, uuid_next, clock, total_cost,
                   send_button, cost_label, chat_history, after_queue, started>>

\* load_tasks on the file save_tasks left
LoadText(t) ==
    /\ turn[t].pc = "load_tasks"
    /\ turn' = [turn EXCEPT ![t] =
          [@ EXCEPT !.pc = "loaded", !.tasks = load_tasks(tasks_file)]]
    /\ UNCHANGED <<variant, scenario, io_faults, api_key, tasks_file, uuid_next, clock,
                   total_cost, send_button, cost_label, chat_history, after_queue, started>>

NextText == \E t \in Turns : SaveText(t) \/ LoadText(t)

SpecText == InitText /\ [][NextText]_vars

(***************************************************************************)
(* The summary get_gpt_response puts into the system prompt, on stores an  *)
(* earlier run has left: tasks completed in any order.                     *)
(***************************************************************************)
MaxSummaryTasks == 4

\* a stored task is active, or was completed early (T1) or late (T2)
SummaryStatuses == {"active", "early", "late"}

summary_task(n, status) ==
    [id |-> uuid4(n), title |-> <<"t", Digits[n + 1]>>, description |-> <<>>,
     timeline |-> <<>>, priority |-> medium, notes |-> <<>>,
     completed |-> status # "active",
     created_at |-> isoformat(0),
     completed_at |-> CASE status = "active" -> None
                        [] status = "early" -> isoformat(1)
                        [] status = "late" -> isoformat(2)]

SummaryStores ==
    UNION {{[n \in 1..k |-> summary_task(n, c[n])] : c \in [1..k -> SummaryStatuses]} :
              k \in 0..MaxSummaryTasks}

\* one thread that is about to build its system prompt
InitPrompt ==
    /\ variant \in {"pop_v3", "old_copy"}
    /\ scenario = "prompt"
    /\ io_faults = FALSE
    /\ api_key = TRUE
    /\ \E tasks \in SummaryStores :
          /\ tasks_file = Document(tasks)
          /\ uuid_next = Len(tasks) + 1
    /\ clock = 3
    /\ total_cost = 0
    /\ send_button = "disabled"
    /\ cost_label = 0
    /\ chat_history = add_to_chat(add_to_chat(load_api_key, <<"You:", "hi">>), thinking_line)
    /\ after_queue = <<>>
    /\ started = 1
    /\ turn = [t \in Turns |->
                 IF t = 1 THEN [NoTurn EXCEPT !.pc = "build_prompt", !.message = <<"hi">>,
                                              !.store_at_start = tasks_file]
                 ELSE NoTurn]

\* get_gpt_response: current_tasks = self.get_tasks_summary()
BuildPrompt(t) ==
    /\ turn[t].pc = "build_prompt"
    /\ turn' = [turn EXCEPT ![t] =
          [@ EXCEPT !.pc = "prompt_built",
                    !.current_tasks = get_tasks_summary(load_tasks(tasks_file))]]
    /\ UNCHANGED <<variant, scenario, io_faults, api_key, tasks_file, uuid_next, clock,
                   total_cost, send_button, cost_label, chat_history, after_queue, started>>

NextPrompt == \E t \in Turns : BuildPrompt(t)

SpecPrompt == InitPrompt /\ [][NextPrompt]_vars

(***************************************************************************)
(* What the claims speak about.  A dispatch is described by the locals of  *)
(* its thread: the list it loaded (tasks), the lists it handed to          *)
(* save_tasks (saved) and the result it returned.                          *)
(***************************************************************************)
\* execute_function_call has returned in thread t
Dispatched(t) ==
    /\ turn[t].pc \in {"second_completion", "cost_read", "cost_write", "finished"}
    /\ turn[t].function_results # <<>>

CompleteDispatched(t) == Dispatched(t) /\ turn[t].function_name = "complete_task"

AddDispatched(t) == Dispatched(t) /\ turn[t].function_name = "add_task"

\* the identifier the dispatcher took from the arguments
IdentifierOf(t) == task_identifier_of(turn[t].function_args)

\* incomplete tasks whose id is s, and incomplete tasks whose title contains s
ActiveById(tasks, s) ==
    {i \in 1..Len(tasks) : tasks[i]["id"] = s /\ ~tasks[i].completed}

ActiveByTitle(tasks, s) ==
    {i \in 1..Len(tasks) :
        s # None /\ ~tasks[i].completed /\ Contains(lower(s), lower(tasks[i].title))}

\* the number k that s denotes, when it denotes a position among n incomplete tasks
IsPosition(s, n) == s # None /\ int(s).ok /\ 1 <= int(s).val /\ int(s).val <= n

\* new is tasks with the i-th record, incomplete before, now completed with a
\* timestamp, and nothing else changed
CompletesOnly(tasks, new, i) ==
    /\ Len(new) = Len(tasks)
    /\ \A j \in 1..Len(tasks) :
          IF j = i
          THEN /\ ~tasks[j].completed
               /\ new[j].completed
               /\ new[j].completed_at # None
               /\ [new[j] EXCEPT !.completed = FALSE, !.completed_at = None]
                  = [tasks[j] EXCEPT !.completed_at = None]
          ELSE new[j] = tasks[j]

\* thread t's dispatch wrote the store once, completing exactly the i-th loaded task
CompletedExactly(t, i) ==
    /\ Len(turn[t].saved) = 1
    /\ CompletesOnly(turn[t].tasks, turn[t].saved[1], i)
    /\ turn[t].result.success

\* thread t's dispatch reported failure and wrote nothing
NotFoundNoWrite(t) ==
    /\ turn[t].saved = <<>>
    /\ ~turn[t].result.success

\* C1: whenever complete_task is dispatched with an identifier s that is the id
\* of an incomplete task of the loaded store, the dispatch writes the store
\* with that task completed and every other record as loaded, and reports
\* success, whatever the titles of the other tasks contain.
C1_IdMatchWins ==
    \A t \in Turns :
       CompleteDispatched(t) =>
          \A i \in ActiveById(turn[t].tasks, IdentifierOf(t)) : CompletedExactly(t, i)

\* an incomplete task stored earlier has the id in its title, and the id won
C1_Witness ==
    \E t \in Turns :
       /\ CompleteDispatched(t)
       /\ \E i \in ActiveById(turn[t].tasks, IdentifierOf(t)) :
             /\ CompletedExactly(t, i)
             /\ \E j \in ActiveByTitle(turn[t].tasks, IdentifierOf(t)) : j < i

\* C2 (as claimed): when s matches no incomplete task by id or by title and is
\* an integer k with 1 <= k <= number of incomplete tasks, the dispatch
\* completes the k-th incomplete task in storage order.
C2_PositionalResolution ==
    \A t \in Turns :
       CompleteDispatched(t) =>
          LET s == IdentifierOf(t)
              tasks == turn[t].tasks
              active_tasks == positions(tasks, 1, FALSE)
          IN  (/\ ActiveById(tasks, s) = {}
               /\ ActiveByTitle(tasks, s) = {}
               /\ IsPosition(s, Len(active_tasks)))
              => CompletedExactly(t, active_tasks[int(s).val])

\* C3 (as claimed): when no incomplete task has id s, the dispatch completes
\* the first incomplete task in storage order whose title contains s,
\* case-insensitively.
C3_TitleResolution ==
    \A t \in Turns :
       CompleteDispatched(t) =>
          LET s == IdentifierOf(t)
              tasks == turn[t].tasks
          IN  (ActiveById(tasks, s) = {} /\ ActiveByTitle(tasks, s) # {})
              => CompletedExactly(t, First(ActiveByTitle(tasks, s)))

\* C4 (as claimed): complete_task with the id of an already completed task, or
\* with an identifier no rule matches to an incomplete task, reports failure
\* and writes nothing.
C4_NotFoundLeavesStore ==
    \A t \in Turns :
       CompleteDispatched(t) =>
          LET s == IdentifierOf(t)
              tasks == turn[t].tasks
              completed_id == \E i \in 1..Len(tasks) :
                                 tasks[i]["id"] = s /\ tasks[i].completed
              no_match == /\ ActiveById(tasks, s) = {}
                          /\ ActiveByTitle(tasks, s) = {}
                          /\ ~IsPosition(s, Len(positions(tasks, 1, FALSE)))
          IN  (completed_id \/ no_match) => NotFoundNoWrite(t)

\* C5 (as claimed): a persisted task that is completed stays persisted as
\* completed, with the completed_at it has, in every step of the program.
C5_CompletedImmutable ==
    [][\A j \in 1..Len(tasks_file.tasks) :
          tasks_file.tasks[j].completed =>
             \E k \in 1..Len(tasks_file'.tasks) :
                /\ tasks_file'.tasks[k]["id"] = tasks_file.tasks[j]["id"]
                /\ tasks_file'.tasks[k].completed
                /\ tasks_file'.tasks[k].completed_at = tasks_file.tasks[j].completed_at]_vars

\* the ids of a list of tasks
IdsOf(tasks) == {tasks[j]["id"] : j \in 1..Len(tasks)}

\* C6: the ids of the persisted tasks are pairwise distinct in every reachable
\* state; every list a dispatch hands to save_tasks keeps, position by
\* position, the ids of the tasks it loaded; and the record an add_task
\* dispatch appends has an id that none of the loaded tasks has.
C6_IdsUniqueAndStable ==
    /\ \A i, j \in 1..Len(tasks_file.tasks) :
          i # j => tasks_file.tasks[i]["id"] # tasks_file.tasks[j]["id"]
    /\ \A t \in Turns :
          \A n \in 1..Len(turn[t].saved) :
             LET new == turn[t].saved[n]
                 tasks == turn[t].tasks
             IN  /\ Len(new) >= Len(tasks)
                 /\ \A j \in 1..Len(tasks) : new[j]["id"] = tasks[j]["id"]
                 /\ turn[t].function_name = "add_task" =>
                       /\ Len(new) = Len(tasks) + 1
                       /\ new[Len(new)]["id"] \notin IdsOf(tasks)

\* an add_task dispatch succeeded on a store that already held tasks, and its
\* list is the persisted one
C6_Witness ==
    \E t \in Turns :
       /\ AddDispatched(t)
       /\ turn[t].result.success
       /\ Len(turn[t].tasks) >= 2
       /\ tasks_file = Document(turn[t].saved[1])

\* C7 (as claimed): an add_task dispatch whose title is missing, empty or
\* whitespace-only reports failure and writes nothing, and no persisted task
\* has an empty title.
C7_EmptyTitleRejected ==
    /\ \A t \in Turns :
          (AddDispatched(t) /\ strip(get(turn[t].function_args, "title", <<>>)) = <<>>)
             => NotFoundNoWrite(t)
    /\ \A j \in 1..Len(tasks_file.tasks) : tasks_file.tasks[j].title # <<>>

\* the cost of one completion call's usage, at the prices of the source
CallCost(u) == u.prompt_tokens * RateIn + u.completion_tokens * RateOut

\* thread t got a first response without tool calls
NoToolTurn(t) ==
    /\ turn[t].pc \in {"cost_read", "cost_write", "finished"}
    /\ turn[t].usages # <<>>
    /\ turn[t].tool_calls = <<>>

\* C8: a turn whose first response carries no tool call makes one completion
\* call, dispatches no tool and writes nothing to the store; it ends with a
\* response whose text is that of the first response, and its update of the
\* spend counter writes the value it read plus
\* prompt_tokens * RateIn + completion_tokens * RateOut of that one call.
C8_NoToolTurn ==
    \A t \in Turns :
       NoToolTurn(t) =>
          /\ turn[t].trace = <<"first_completion">>
          /\ Len(turn[t].usages) = 1
          /\ turn[t].function_results = <<>>
          /\ turn[t].saved = <<>>
          /\ turn[t].final_reply = turn[t].content
          /\ turn[t].pc = "finished" =>
                /\ turn[t].outcome = "response"
                /\ turn[t].written_cost = turn[t].read_cost + CallCost(turn[t].usages[1])

\* a turn without tool call has finished and the counter holds its cost
C8_Witness ==
    \E t \in Turns :
       /\ NoToolTurn(t)
       /\ turn[t].pc = "finished"
       /\ turn[t].usages[1].prompt_tokens # turn[t].usages[1].completion_tokens
       /\ total_cost = CallCost(turn[t].usages[1])

\* thread t dispatched add_task and both of its completion calls succeeded
AddTurnDone(t) ==
    /\ turn[t].function_name = "add_task"
    /\ turn[t].pc = "finished"
    /\ turn[t].outcome = "response"

\* C9: a turn whose first response asks for add_task with well-formed
\* arguments and whose two completion calls succeed makes the first call, then
\* the dispatch, then the second call, and nothing else; the dispatch hands to
\* save_tasks, once, the loaded list with one record appended; and its update
\* of the spend counter writes the value it read plus the cost of the summed
\* prompt and completion tokens of both calls.
C9_AddTaskTurn ==
    \A t \in Turns :
       AddTurnDone(t) =>
          /\ turn[t].trace
             = <<"first_completion", "execute_function_call", "second_completion">>
          /\ Len(turn[t].usages) = 2
          /\ Len(turn[t].saved) = 1
          /\ turn[t].saved[1] = Append(turn[t].tasks, turn[t].task)
          /\ turn[t].written_cost
             = turn[t].read_cost + CallCost(turn[t].usages[1]) + CallCost(turn[t].usages[2])

\* an add_task turn has finished after two calls with different usages, and
\* the store holds the list it saved
C9_Witness ==
    \E t \in Turns :
       /\ AddTurnDone(t)
       /\ turn[t].usages[1] # turn[t].usages[2]
       /\ turn[t].tasks # <<>>
       /\ tasks_file = Document(Append(turn[t].tasks, turn[t].task))
       /\ total_cost = CallCost(turn[t].usages[1]) + CallCost(turn[t].usages[2])

IsDispatchEvent(e) == e = "execute_function_call"

IsCompletionEvent(e) == e \in {"first_completion", "second_completion"}

\* C10: in every turn execute_function_call runs at most once and at most two
\* completion calls are made; what is executed is the first tool call of the
\* first response; and nothing is dispatched after the second call, whatever
\* tool calls its response carries.
C10_OneDispatchTwoCalls ==
    \A t \in Turns :
       /\ Len(SelectSeq(turn[t].trace, IsDispatchEvent)) <= 1
       /\ Len(SelectSeq(turn[t].trace, IsCompletionEvent)) <= 2
       /\ Len(turn[t].function_results) <= 1
       /\ turn[t].function_results # <<>> =>
             /\ turn[t].function_name = turn[t].tool_calls[1].name
             /\ turn[t].function_args = turn[t].tool_calls[1].arguments
       /\ turn[t].follow_up_tool_calls # <<>> =>
             /\ turn[t].pc \in {"cost_read", "cost_write", "finished"}
             /\ turn[t].trace[Len(turn[t].trace)] = "second_completion"

\* a first response with two tool calls and a follow-up response with a tool
\* call: a turn that finished after one dispatch, of the first tool call
C10_Witness ==
    \E t \in Turns :
       /\ turn[t].pc = "finished"
       /\ turn[t].outcome = "response"
       /\ Len(turn[t].tool_calls) = 2
       /\ turn[t].tool_calls[1].name # turn[t].tool_calls[2].name
       /\ turn[t].follow_up_tool_calls # <<>>
       /\ turn[t].function_name = turn[t].tool_calls[1].name
       /\ Len(SelectSeq(turn[t].trace, IsDispatchEvent)) = 1

\* the lines of the chat
ChatLines == {chat_history[i] : i \in 1..Len(chat_history)}

\* the line handle_gpt_error shows for the error text
ErrorLine(text) == <<"NOX:", "Error", text>>

\* thread t got a first response whose first tool call has an argument
\* payload json.loads rejects
MalformedTurn(t) ==
    /\ turn[t].usages # <<>>
    /\ turn[t].tool_calls # <<>>
    /\ ~json_loads(first_tool_call(turn[t].tool_calls)).ok

\* what C11 says of a malformed turn apart from the error line: the turn ends
\* after the first call, without dispatch, store write or spend update
AbortedQuietly(t) ==
    /\ turn[t].pc = "finished"
    /\ turn[t].outcome = "error"
    /\ turn[t].trace = <<"first_completion">>
    /\ turn[t].function_results = <<>>
    /\ turn[t].saved = <<>>
    /\ turn[t].read_cost = 0
    /\ turn[t].written_cost = 0

\* C11 (as claimed): a turn whose tool-call arguments cannot be parsed ends
\* after the first call without dispatch, store write, second call or spend
\* update, and once its callback has run on the interactive thread it was
\* handle_gpt_error and the chat shows the invalid-arguments error line.
C11_MalformedAborts ==
    \A t \in Turns :
       MalformedTurn(t) =>
          /\ AbortedQuietly(t)
          /\ turn[t].handled # "none" =>
                /\ turn[t].handled = "handle_gpt_error"
                /\ ErrorLine("Invalid function arguments") \in ChatLines

\* after the dispatch of thread t the second completion call is the next
\* thing get_gpt_response does, or has done
SecondCallFollows(t) ==
    \/ /\ turn[t].pc = "second_completion"
       /\ turn[t].trace = <<"first_completion", "execute_function_call">>
    \/ /\ Len(turn[t].trace) = 3
       /\ turn[t].trace[3] = "second_completion"

\* C12 (as claimed): every dispatch returns a result that carries a success
\* flag and a message, the result is the one handed on to the second
\* completion call, and the second call follows every dispatch, failed or not.
C12_ToolFailureNeverAborts ==
    \A t \in Turns :
       Dispatched(t) =>
          /\ {"success", "message"} \subseteq DOMAIN turn[t].result
          /\ turn[t].result.success \in BOOLEAN
          /\ turn[t].function_results = <<turn[t].result>>
          /\ SecondCallFollows(t)

\* thread t dispatched a name that is none of add_task, get_tasks, complete_task
UnknownDispatched(t) == Dispatched(t) /\ turn[t].function_name \notin function_names

\* C13: the dispatch of a function name other than add_task, get_tasks and
\* complete_task returns success = false with a message that says the function
\* is unknown and names it; it loads nothing and writes nothing, so that
\* tasks.json is as it was when the turn started; and it raises nothing: the
\* second completion call follows.
C13_UnknownFunction ==
    \A t \in Turns :
       UnknownDispatched(t) =>
          /\ DOMAIN turn[t].result = {"success", "message"}
          /\ turn[t].result.success = FALSE
          /\ turn[t].result.message = <<"Unknown function", turn[t].function_name>>
          /\ turn[t].tasks = <<>>
          /\ turn[t].saved = <<>>
          /\ tasks_file = turn[t].store_at_start
          /\ SecondCallFollows(t)

\* a turn that asked for delete_task on a store with tasks has ended with a
\* response
C13_Witness ==
    \E t \in Turns :
       /\ UnknownDispatched(t)
       /\ turn[t].function_name = "delete_task"
       /\ turn[t].pc = "finished"
       /\ turn[t].outcome = "response"
       /\ tasks_file.tasks # <<>>

\* the second completion call of thread t raised after a dispatch that wrote
\* the store and reported success
SecondCallFailedAfterMutation(t) ==
    /\ turn[t].trace
       = <<"first_completion", "execute_function_call", "second_completion">>
    /\ turn[t].outcome = "error"
    /\ turn[t].saved # <<>>
    /\ turn[t].result.success

\* C14 (as claimed): when the second completion call fails after a dispatch
\* that added or completed a task, the list the dispatch saved is still the
\* persisted one, the turn never reaches handle_gpt_response, and once its
\* callback has run the turn was reported by handle_gpt_error with an error
\* line in the chat.
C14_DurableButErrored ==
    \A t \in Turns :
       SecondCallFailedAfterMutation(t) =>
          /\ tasks_file = Document(turn[t].saved[Len(turn[t].saved)])
          /\ turn[t].handled # "none" =>
                /\ turn[t].handled = "handle_gpt_error"
                /\ ErrorLine("completion failed") \in ChatLines

\* the first completion call of thread t raised
FirstCallFailed(t) ==
    /\ turn[t].trace = <<"first_completion">>
    /\ turn[t].usages = <<>>
    /\ turn[t].outcome = "error"

\* C15 (as claimed): a turn whose first completion call fails dispatches
\* nothing and leaves tasks.json as it was when the turn started, and once its
\* callback has run it was handle_gpt_error and the chat shows an error line.
C15_FailureBeforeDispatch ==
    \A t \in Turns :
       FirstCallFailed(t) =>
          /\ turn[t].function_results = <<>>
          /\ turn[t].saved = <<>>
          /\ tasks_file = turn[t].store_at_start
          /\ turn[t].handled # "none" =>
                /\ turn[t].handled = "handle_gpt_error"
                /\ ErrorLine("completion failed") \in ChatLines

\* thread t reaches Done in this step: it finishes with a response
ReachesDone(t) == turn[t].pc = "cost_write" /\ turn'[t].outcome = "response"

\* C16 (as claimed): the spend counter is zero at startup, no step decreases
\* it, and a step changes it only when a turn reaches Done in that step, so
\* that a turn ending in an error leaves it as it was.
C16_SpendMonotone ==
    /\ total_cost = 0
    /\ [][/\ total_cost' >= total_cost
          /\ total_cost' # total_cost => \E t \in Turns : ReachesDone(t)]_vars

\* thread t was started and its callback has not yet run on the interactive
\* thread
InFlight(t) == turn[t].pc # "unstarted" /\ turn[t].handled = "none"

\* C17 (as claimed): at most one turn is in flight in every reachable state.
C17_OneTurnInFlight == Cardinality({t \in Turns : InFlight(t)}) <= 1

\* the interactive thread has run one of the two handlers for turn t
Terminal(t) == turn[t].handled \in {"handle_gpt_response", "handle_gpt_error"}

\* C18 (as claimed): every started get_gpt_response is eventually followed by
\* handle_gpt_response or handle_gpt_error running on the interactive thread.
C18_EveryTurnTerminates ==
    \A t \in Turns : (turn[t].pc # "unstarted") ~> Terminal(t)

\* the widgets of the window
presentation == <<chat_history, cost_label, send_button>>

\* a step taken by a running get_gpt_response thread
ThreadStep == \E t \in Turns : turn[t].pc # "unstarted" /\ turn'[t].pc # turn[t].pc

\* a step in which the event loop runs a callback handed to root.after
CallbackStep == after_queue # <<>> /\ after_queue' = Tail(after_queue)

\* C19: no step of a get_gpt_response thread changes the chat transcript, the
\* cost label or the Send button; the cost label changes and the Send button
\* is re-enabled only in a step that runs a scheduled callback.
C19_ThreadLeavesWidgets ==
    [][/\ ThreadStep => presentation' = presentation
       /\ (cost_label' # cost_label \/ (send_button = "disabled" /\ send_button' = "normal"))
             => CallbackStep]_vars

\* C19 case: a turn ran to its end and handle_gpt_response, run from the
\* callback queue, has shown its cost and re-enabled the Send button
C19_Witness ==
    \E t \in Turns :
       /\ turn[t].pc = "finished"
       /\ turn[t].handled = "handle_gpt_response"
       /\ cost_label > 0
       /\ send_button = "normal"

\* thread t makes a save_tasks call in this step
Saves(t) == turn[t].pc = "execute_save" /\ Len(turn'[t].saved) = Len(turn[t].saved) + 1

\* C20 (as claimed): after a save_tasks call, finished or failed, tasks.json is
\* a complete document holding either the previous sequence or the sequence
\* handed to the call.
C20_AllOrNothing ==
    [][\A t \in Turns :
          Saves(t) =>
             \/ tasks_file' = tasks_file
             \/ tasks_file' = Document(turn'[t].saved[Len(turn'[t].saved)])]_vars

\* thread t runs the add_task branch of execute_function_call in this step
AddSaves(t) == Saves(t) /\ turn[t].function_name = "add_task"

\* the list the last save_tasks call of thread t was given
LastSaved(t) == turn[t].saved[Len(turn[t].saved)]

\* C21: an add_task dispatch whose save_tasks call did not write the new
\* document returns success false, and the task it tried to add is in the
\* persisted store neither right after the call nor at any later time.
C21_FailedAddNotCommitted ==
    /\ [](\A t \in Turns :
            (AddDispatched(t) /\ ~turn[t].result.success)
               => turn[t].task["id"] \notin IdsOf(load_tasks(tasks_file)))
    /\ [][\A t \in Turns :
            (AddSaves(t) /\ tasks_file' # Document(LastSaved(t)'))
               => /\ turn'[t].result.success = FALSE
                  /\ "message" \in DOMAIN turn'[t].result
                  /\ turn[t].task["id"] \notin IdsOf(load_tasks(tasks_file'))]_vars

\* C21 case: an add_task dispatch failed in save_tasks after open() had
\* emptied the file
C21_Witness ==
    \E t \in Turns :
       /\ AddDispatched(t)
       /\ turn[t].result = exception_result("add_task", "Failed to save task to file")
       /\ tasks_file = Truncated

\* thread t makes the load_tasks call of a dispatch in this step
Loads(t) == turn[t].pc = "execute_load" /\ turn[t].function_name \in function_names

\* C22 (as claimed): a load_tasks call that finds a document json.load does
\* not accept never returns an empty list to the dispatch that made it.
C22_UnparsableReadFails ==
    [][\A t \in Turns :
          (Loads(t) /\ ~tasks_file.json_ok)
             => ~(turn'[t].pc = "execute_save" /\ turn'[t].tasks = <<>>)]_vars

\* a complete_task dispatch that found its task and whose save_tasks call failed
CompleteNotPersisted(t) ==
    /\ CompleteDispatched(t)
    /\ turn[t].saved # <<>>
    /\ ~turn[t].result.success

\* C23 (as claimed): the result of a complete_task dispatch that resolved a
\* task and could not persist the change is not the result the dispatcher
\* gives for an identifier that resolves no task.
C23_HardFailureDistinct ==
    \A t \in Turns :
       CompleteNotPersisted(t) => turn[t].result # not_found_result(IdentifierOf(t))

\* the records of `new` start with the records of `old`, id by id
KeepsRecords(old, new) ==
    /\ Len(new) >= Len(old)
    /\ \A i \in 1..Len(old) : new[i]["id"] = old[i]["id"]

\* C24 (as claimed): in every step the persisted sequence keeps each record
\* it had at its position, and the step of a successful add_task dispatch
\* leaves the persisted sequence exactly one record longer.
C24_StoreOnlyGrows ==
    [][/\ KeepsRecords(load_tasks(tasks_file), load_tasks(tasks_file'))
       /\ \A t \in Turns :
             (AddSaves(t) /\ turn'[t].result.success)
                => /\ Len(load_tasks(tasks_file')) = Len(load_tasks(tasks_file)) + 1
                   /\ load_tasks(tasks_file')[Len(load_tasks(tasks_file'))] = turn[t].task]_vars

\* C25 (as claimed): load_tasks after save_tasks(tasks) returns the records
\* of tasks, as many, in the same order and equal in every field.
C25_RoundTrip ==
    \A t \in Turns :
       turn[t].pc = "loaded" => turn[t].tasks = turn[t].saved[1]

\* the line send_message shows when no key is loaded
missing_key_line == <<"NOX:", "Please add your API key">>

\* C26: while no API key is loaded, every step of the program is a submission
\* that appends the missing-key line to the chat and changes nothing else; no
\* thread is ever started, no completion call is made, no callback is
\* scheduled, and the Send button stays enabled.
C26_NoKeyNoTurn ==
    /\ [](~api_key =>
            /\ started = 0
            /\ send_button = "normal"
            /\ after_queue = <<>>
            /\ total_cost = 0
            /\ \A t \in Turns : turn[t] = NoTurn)
    /\ [][~api_key =>
            /\ chat_history' = Append(chat_history, missing_key_line)
            /\ UNCHANGED <<tasks_file, total_cost, send_button, cost_label, started, turn,
                           after_queue>>]_vars

\* C26 case: a message was submitted without a key and the missing-key line
\* is the last line of the chat
C26_Witness ==
    /\ ~api_key
    /\ Len(chat_history) > Len(load_api_key)
    /\ chat_history[Len(chat_history)] = missing_key_line
    /\ send_button = "normal"

\* thread t has built the summary for its system prompt
PromptBuilt(t) == turn[t].pc = "prompt_built"

\* the lines of a summary that show an active task
ActiveLines(summary) == {l \in 1..Len(summary) : summary[l].kind = "active"}

\* C27 (as claimed): the summary built for the system prompt has, for every
\* incomplete task of the store, a line of an active task that shows its id.
C27_SummaryShowsIds ==
    \A t \in Turns :
       PromptBuilt(t) =>
          \A i \in 1..Len(load_tasks(tasks_file)) :
             ~load_tasks(tasks_file)[i].completed
                => \E l \in ActiveLines(turn[t].current_tasks) :
                      turn[t].current_tasks[l]["id"] = load_tasks(tasks_file)[i]["id"]

\* the smaller of two numbers
Min(a, b) == IF a <= b THEN a ELSE b

\* the summary s of a non-empty store: the count of the incomplete tasks, the
\* incomplete tasks in storage order numbered from 1, and, when tasks are
\* completed, their count and min(3, count) of them of which none was
\* completed before a completed task that is left out
SummaryAsClaimed(tasks, s) ==
    LET act == positions(tasks, 1, FALSE)
        done == positions(tasks, 1, TRUE)
        n == Len(act)
        shown == {s[l].title : l \in (n + 3)..Len(s)}
    IN  /\ Len(s) > n
        /\ s[1] = [kind |-> "active_header", count |-> n]
        /\ \A k \in 1..n :
              /\ s[1 + k].kind = "active"
              /\ s[1 + k].number = k
              /\ s[1 + k].title = tasks[act[k]].title
        /\ done = <<>> => Len(s) = n + 1
        /\ done # <<>> =>
              /\ Len(s) = n + 2 + Min(3, Len(done))
              /\ s[n + 2] = [kind |-> "completed_header", count |-> Len(done)]
              /\ \A l \in (n + 3)..Len(s) :
                    /\ s[l].kind = "completed"
                    /\ \E i \in 1..Len(done) : tasks[done[i]].title = s[l].title
              /\ Cardinality(shown) = Min(3, Len(done))
              /\ \A i, j \in 1..Len(done) :
                    (tasks[done[i]].title \in shown /\ tasks[done[j]].title \notin shown)
                       => tasks[done[j]].completed_at[2] <= tasks[done[i]].completed_at[2]

\* C28 (as claimed): the summary built for the system prompt lists the
\* incomplete tasks in storage order, numbered 1..n and preceded by their
\* count, then the count of the completed tasks and the 3 completed most
\* recently.
C28_SummaryLayout ==
    \A t \in Turns :
       (PromptBuilt(t) /\ load_tasks(tasks_file) # <<>>)
          => SummaryAsClaimed(load_tasks(tasks_file), turn[t].current_tasks)

\* C29 (as claimed): a dispatch is answered with "Unknown function" exactly
\* when its name is not in the catalog; and in every complete_task dispatch
\* the catalog's parameter is task_identifier and the dispatcher resolves the
\* value given under that key.
C29_CatalogLockstep ==
    \A t \in Turns :
       /\ Dispatched(t) =>
             (turn[t].function_name \in function_names
                <=> turn[t].result # unknown_function_result(turn[t].function_name))
       /\ CompleteDispatched(t) =>
             /\ complete_task_parameter = "task_identifier"
             /\ "task_identifier" \in DOMAIN turn[t].function_args
                   => IdentifierOf(t) = turn[t].function_args.task_identifier

\* the diagnostic lines of a transcript
DiagnosticLines(history) == {i \in 1..Len(history) : history[i][1] = "[DEBUG]"}

\* handle_gpt_response runs for turn t in this step
ShowsResponse(t) ==
    turn[t].handled = "none" /\ turn'[t].handled = "handle_gpt_response"

\* C30: the step in which handle_gpt_response runs for a turn that dispatched a
\* tool call ends the transcript with the reply followed by one diagnostic
\* line, marked as success exactly when the result's success flag is true,
\* and adds no other diagnostic line; for a turn without a dispatch it ends
\* the transcript with the reply and adds no diagnostic line.
C30_DiagnosticTrace ==
    [][\A t \in Turns :
          ShowsResponse(t) =>
             LET n == Len(chat_history')
                 added == Cardinality(DiagnosticLines(chat_history'))
                          - Cardinality(DiagnosticLines(chat_history))
             IN  IF Dispatched(t)
                 THEN /\ added = 1
                      /\ n >= 2
                      /\ chat_history'[n - 1] = <<"NOX:">> \o turn[t].final_reply
                      /\ chat_history'[n][1] = "[DEBUG]"
                      /\ chat_history'[n][2] = "executed" <=> turn[t].result.success
                      /\ chat_history'[n][2] = "failed" <=> ~turn[t].result.success
                 ELSE /\ added = 0
                      /\ n >= 1
                      /\ chat_history'[n] = <<"NOX:">> \o turn[t].final_reply]_vars

\* C30 case: a turn whose dispatch failed has reached Done and its reply and
\* its diagnostic line are shown
C30_Witness ==
    \E t \in Turns :
       /\ Dispatched(t)
       /\ ~turn[t].result.success
       /\ turn[t].handled = "handle_gpt_response"
       /\ chat_history[Len(chat_history)][2] = "failed"

\* thread t's complete_task dispatch has returned a result that reports success
CompleteSucceeded(t) == CompleteDispatched(t) /\ turn[t].result.success

\* C31 (as claimed): a complete_task dispatch that reports success handed one
\* list to save_tasks, which is the list it loaded with exactly one record
\* changed; in that record completed went from false to true and completed_at
\* from null to a timestamp, and id, title, description, timeline, priority,
\* notes and created_at are as loaded; the other records, their number and
\* their order are as loaded.
C31_CompleteFrame ==
    \A t \in Turns :
       CompleteSucceeded(t) =>
          /\ Len(turn[t].saved) = 1
          /\ \E i \in 1..Len(turn[t].tasks) :
                CompletesOnly(turn[t].tasks, turn[t].saved[1], i)

\* thread t's add_task dispatch has returned a result that reports success
AddSucceeded(t) == AddDispatched(t) /\ turn[t].result.success

\* the step in which thread t's add_task dispatch calls load_tasks
AddLoads(t) ==
    /\ turn[t].pc = "execute_load"
    /\ turn[t].function_name = "add_task"
    /\ turn'[t].pc = "execute_save"

\* C32: an add_task dispatch that reports success handed one list to
\* save_tasks, and that list was written: it is the persisted sequence the
\* call loaded when it began, record by record and in the same order, with
\* exactly one record appended at the end; the appended record is the one the result returns, it has
\* completed = false and completed_at = null, and its priority is 'medium'
\* when the arguments give none.
C32_AddFrame ==
    /\ [] \A t \in Turns :
          AddSucceeded(t) =>
             LET tasks == turn[t].tasks
                 new == turn[t].saved[1]
                 task == turn[t].result.task
             IN  /\ Len(turn[t].saved) = 1
                 /\ Len(new) = Len(tasks) + 1
                 /\ SubSeq(new, 1, Len(tasks)) = tasks
                 /\ new[Len(new)] = task
                 /\ task.completed = FALSE
                 /\ task.completed_at = None
                 /\ "priority" \notin DOMAIN turn[t].function_args => task.priority = medium
    /\ [][\A t \in Turns :
             /\ AddLoads(t) => turn'[t].tasks = load_tasks(tasks_file)
             /\ (AddSaves(t) /\ turn'[t].result.success)
                   => tasks_file' = Document(Append(turn[t].tasks, turn'[t].result.task))]_vars

\* C32 case: an add_task dispatch without a priority succeeded on a store that
\* held a completed and an incomplete task, and its list is the persisted one
C32_Witness ==
    \E t \in Turns :
       /\ AddSucceeded(t)
       /\ "priority" \notin DOMAIN turn[t].function_args
       /\ \E i, j \in 1..Len(turn[t].tasks) :
             turn[t].tasks[i].completed /\ ~turn[t].tasks[j].completed
       /\ tasks_file = Document(turn[t].saved[1])

\* the steps of thread t's get_tasks dispatch: load_tasks, then the summary
\* and the return
GetTasksLoads(t) ==
    /\ turn[t].pc = "execute_load"
    /\ turn[t].function_name = "get_tasks"
    /\ turn'[t].pc = "execute_save"

GetTasksReturns(t) ==
    /\ turn[t].pc = "execute_save"
    /\ turn[t].function_name = "get_tasks"
    /\ turn'[t].pc = "second_completion"

\* the step in which thread t builds the summary for the system prompt and
\* makes its first completion call
BuildsSummary(t) == turn[t].pc = "first_completion" /\ turn'[t].pc # "first_completion"

\* C33: no step of a get_tasks dispatch, and no step in which a turn builds
\* the summary for its system prompt, changes tasks.json; the dispatch reports
\* success and the tasks it returns are the persisted sequence as its
\* load_tasks call found it, every record and in storage order.
C33_GetTasksReadOnly ==
    [][\A t \in Turns :
          /\ (GetTasksLoads(t) \/ GetTasksReturns(t) \/ BuildsSummary(t))
                => tasks_file' = tasks_file
          /\ GetTasksLoads(t) => turn'[t].tasks = tasks_file.tasks
          /\ GetTasksReturns(t) =>
                /\ turn'[t].result.success
                /\ turn'[t].result.tasks = turn[t].tasks]_vars

\* C33 case: a get_tasks dispatch returned a store that holds a completed task
\* in front of an incomplete one
C33_Witness ==
    \E t \in Turns :
       /\ Dispatched(t)
       /\ turn[t].function_name = "get_tasks"
       /\ tasks_file = Document(turn[t].result.tasks)
       /\ Len(turn[t].result.tasks) >= 2
       /\ turn[t].result.tasks[1].completed
       /\ ~turn[t].result.tasks[2].completed

\* the dispatcher found no identifier in the arguments, or an empty one
NoIdentifier(t) == IdentifierOf(t) \in {None, <<>>}

\* C34 (as claimed): a complete_task dispatch whose identifier argument is
\* missing or is the empty string reports failure and writes nothing.
C34_NoIdentifierNoCompletion ==
    \A t \in Turns :
       (CompleteDispatched(t) /\ NoIdentifier(t)) => NotFoundNoWrite(t)

\* the positions at which the list thread t saved differs from the list it loaded
MarkedBy(t) ==
    {i \in 1..Len(turn[t].tasks) : turn[t].saved[1][i] # turn[t].tasks[i]}

\* the result message names the task: by its title or by its id
NamesTask(message, task) ==
    /\ Len(message) >= 2
    /\ message[2] \in {task.title, task["id"]}

\* C35 (as claimed): the message of a complete_task dispatch that reports
\* success names the task this dispatch marked completed, whatever else the
\* store holds.
C35_MessageNamesCompleted ==
    \A t \in Turns :
       CompleteSucceeded(t) =>
          /\ Len(turn[t].saved) = 1
          /\ \E i \in MarkedBy(t) : NamesTask(turn[t].result.message, turn[t].tasks[i])

\* every get_gpt_response thread that was started has run to its end
AllFinished == \A t \in Turns : turn[t].pc \in {"unstarted", "finished"}

\* the sum of the cost deltas of the first n threads that reached Done
RECURSIVE SpendOfDone(_)
SpendOfDone(n) ==
    IF n = 0 THEN 0
    ELSE SpendOfDone(n - 1)
         + (IF turn[n].outcome = "response" THEN turn[n].total_cost ELSE 0)

\* C36 (as claimed): once every started turn has finished, the spend counter
\* is the sum of the cost deltas of the turns that reached Done.
C36_NoSpendLost == AllFinished => total_cost = SpendOfDone(MaxTurns)

\* the persisted store holds a record with this id, and holds it as completed
Persisted(id) ==
    \E k \in 1..Len(load_tasks(tasks_file)) : load_tasks(tasks_file)[k]["id"] = id

PersistedCompleted(id) ==
    \E k \in 1..Len(load_tasks(tasks_file)) :
       /\ load_tasks(tasks_file)[k]["id"] = id
       /\ load_tasks(tasks_file)[k].completed

\* C37 (as claimed): once every started turn has finished, the record of every
\* add_task dispatch that reported success is in the persisted store, and the
\* task every complete_task dispatch that reported success marked is
\* persisted as completed.
C37_NoStoreUpdateLost ==
    AllFinished =>
       \A t \in Turns :
          /\ AddSucceeded(t) => Persisted(turn[t].result.task["id"])
          /\ CompleteSucceeded(t) =>
                \A i \in MarkedBy(t) : PersistedCompleted(turn[t].tasks[i]["id"])

\* the lines of a transcript that are not the loading placeholder, in order
WithoutPlaceholder(history) == SelectSeq(history, LAMBDA line : line # thinking_line)

\* one of the two handlers runs for turn t in this step
HandlerRuns(t) == turn[t].handled = "none" /\ Terminal(t)'

\* the transcript shows the loading placeholder
PlaceholderShown == \E i \in 1..Len(chat_history) : chat_history[i] = thinking_line

\* C38 (as claimed): a step in which handle_gpt_response or handle_gpt_error
\* runs keeps every line of the transcript that is not the placeholder
\* "NOX: Thinking...", in order, in front of the lines it adds, also a reply
\* that begins with "Thinking"; and whenever no turn is in flight the
\* transcript shows no placeholder.
C38_OnlyPlaceholderRemoved ==
    /\ [] ((\A t \in Turns : ~InFlight(t)) => ~PlaceholderShown)
    /\ [][\A t \in Turns :
             HandlerRuns(t) =>
                LET kept == WithoutPlaceholder(chat_history)
                IN  /\ Len(chat_history') >= Len(kept)
                    /\ SubSeq(chat_history', 1, Len(kept)) = kept]_vars

====
